---- MODULE Spec2Model ----
(***************************************************************************)
(* A model of pyLIQTR's meta-bloqs (utils/deferred.py, utils/repeat.py)    *)
(* and of the sequence comparators of utils/tests/test_helpers.py.         *)
(***************************************************************************)
EXTENDS Integers, Sequences, FiniteSets, TLC

(***************************************************************************)
(* Bounds of the model.                                                    *)
(***************************************************************************)
MaxObjs == 2
MaxComposes == 3
NThreads == 2
MaxReps == 2
MaxStarts == 2
MaxLen == 3
MaxDeferred == 1

VARIABLES
    SINGLETON_CACHE,  \* Cached.SINGLETON_CACHE: the class-level dict, tag -> bloq
    objs,             \* the Cached instances constructed so far
    gen_state,        \* per generator function: how often it has been invoked
    obs,              \* observations per tag: invocations, failures, yields
    thr,              \* threads inside Cached.compose, each at a line of it
    rep,              \* the Repeat instance (its fields), once constructed
    its,              \* the generators returned by decompose() / decompose_once()
    robs,             \* observations of the Repeat: strategy evaluations, outputs
    circuit,          \* the reference sequence: generator_decompose(circuit)
    bloq,             \* the candidate sequence: generator_decompose(bloq)
    viaDisjoint,      \* bloq was got from circuit by swaps of disjoint neighbours only
    sres,             \* what generator_equality(circuit, bloq) returned, once called
    cres,             \* what circuit_equality(circuit, bloq) returned, once called
    cmp,              \* the run of generator_commutative_equality(circuit, bloq)
    dfrs,             \* the Deferred instances constructed so far
    dobs,             \* observations per Deferred: decompositions, calls, yields
    flat              \* the flattening of a root meta-bloq, pulled element by element

cachedVars == <<SINGLETON_CACHE, objs, gen_state, obs, thr>>
repeatVars == <<rep, its, robs>>
cmpVars == <<circuit, bloq, viaDisjoint, sres, cres, cmp>>
deferredVars == <<dfrs, dobs>>
vars == <<SINGLETON_CACHE, objs, gen_state, obs, thr, rep, its, robs,
          circuit, bloq, viaDisjoint, sres, cres, cmp, dfrs, dobs, flat>>

(***************************************************************************)
(* Values.  Python's None, the tags, the generator functions handed to     *)
(* the constructors, and the argument tuples bind_params may bind.         *)
(***************************************************************************)
None == <<"None">>

Tags == {"X", "Y"}

BoundArgs == {<<"args", 1>>, <<"args", 2>>}

\* The generator functions (subbloq_gen) of the model: a pure constructor, one
\* returning a fresh object per call, one returning None, and one that raises
\* on its first call.
Gens == {"const", "fresh", "none", "flaky"}

\* subbloq_gen(*args, **kwargs): the n-th call (n counted from 0) of g.
SubbloqGenCall(g, args, n) ==
    CASE g = "const" -> [raised |-> FALSE, value |-> <<"const", args[2]>>]
      [] g = "fresh" -> [raised |-> FALSE, value |-> <<"fresh", n>>]
      [] g = "none"  -> [raised |-> FALSE, value |-> None]
      [] OTHER       -> IF n = 0
                        THEN [raised |-> TRUE, value |-> None]
                        ELSE [raised |-> FALSE, value |-> <<"flaky", n>>]

(***************************************************************************)
(* Cached (deferred.py)                                                    *)
(***************************************************************************)
\* Cached.SINGLETON_CACHE.get(self.tag, None)
CacheGet(cache, tag) == IF tag \in DOMAIN cache THEN cache[tag] ELSE None

\* Cached.SINGLETON_CACHE[self.tag] = bloq
CacheStore(cache, tag, value) ==
    [t \in DOMAIN cache \cup {tag} |-> IF t = tag THEN value ELSE cache[t]]

\* `if cache_entry is None`
IsMiss(cache_entry) == cache_entry = None

\* Cached.__init__: stores tag and generator; args and kwargs are set to None
CachedInit(tag, subbloq_gen) ==
    [tag |-> tag, subbloq_gen |-> subbloq_gen, args |-> None]

\* An operation: a gate on a set of qubits.
Op(g, qs) == [gate |-> g, qubits |-> qs]

\* No comparison under way, no sequences to compare.
IdleCmp == [result |-> "idle", backlog |-> << >>, gen |-> 0, pos |-> 0, matched |-> 0]

CmpIdle ==
    /\ circuit = << >>
    /\ bloq = << >>
    /\ viaDisjoint = TRUE
    /\ sres = "unset"
    /\ cres = "unset"
    /\ cmp = IdleCmp

NoObs == [calls |-> [t \in Tags |-> 0], fails |-> [t \in Tags |-> 0],
          yields |-> [t \in Tags |-> 0], last |-> [t \in Tags |-> <<"nothing">>],
          composes |-> 0]

ObsCall(o, tag) == [o EXCEPT !.calls[tag] = @ + 1]
ObsFail(o, tag) == [o EXCEPT !.fails[tag] = @ + 1]
ObsYield(o, tag, v) == [o EXCEPT !.yields[tag] = @ + 1, !.last[tag] = v]

IdleThread == [pc |-> "idle", obj |-> 0, cache_entry |-> None, bloq |-> None]

\* No Repeat constructed, no generator of one alive.
NoRepeat == [subbloq |-> "none"]

NoRobs == [evals |-> 0, done |-> 0, starts |-> 0, hist |-> << >>, err |-> "none",
           tried |-> "none", dfr |-> << >>]

RepeatIdle ==
    /\ rep = NoRepeat
    /\ its = << >>
    /\ robs = NoRobs

\* Nothing is being flattened.
NoFlat == [state |-> "none", root |-> NoRepeat, out |-> << >>]

\* No Deferred constructed.
DeferredIdle ==
    /\ dfrs = << >>
    /\ dobs = << >>
    /\ flat = NoFlat

CachedIdle ==
    /\ SINGLETON_CACHE = << >>
    /\ objs = << >>
    /\ gen_state = [g \in Gens |-> 0]
    /\ obs = NoObs
    /\ thr = [t \in 1..NThreads |-> IdleThread]

InitCached ==
    /\ CachedIdle
    /\ DeferredIdle
    /\ RepeatIdle
    /\ CmpIdle

\* Cached(tag, subbloq_gen, ...)
NewCached(tag, g) ==
    /\ Len(objs) < MaxObjs
    /\ objs' = Append(objs, CachedInit(tag, g))
    /\ UNCHANGED <<SINGLETON_CACHE, gen_state, obs, thr, repeatVars, cmpVars, deferredVars, flat>>

\* MetaBloq.bind_params(*args): the binder of the parameter-binding collaborator
bind_params(i, a) ==
    /\ i \in 1..Len(objs)
    /\ objs[i].args # a
    /\ objs' = [objs EXCEPT ![i].args = a]
    /\ UNCHANGED <<SINGLETON_CACHE, gen_state, obs, thr, repeatVars, cmpVars, deferredVars, flat>>

\* next(self.compose()) leaving a marker under the tag when the generator raises
Cached_composeMut(i) ==
    /\ i \in 1..Len(objs)
    /\ obs.composes < MaxComposes
    /\ LET self == objs[i]
           cache_entry == CacheGet(SINGLETON_CACHE, self.tag)
           o == [obs EXCEPT !.composes = @ + 1]
       IN  IF IsMiss(cache_entry)
           THEN IF self.args = None
                THEN /\ obs' = o
                     /\ UNCHANGED <<SINGLETON_CACHE, gen_state>>
                ELSE LET g == self.subbloq_gen
                         r == SubbloqGenCall(g, self.args, gen_state[g])
                     IN  /\ gen_state' = [gen_state EXCEPT ![g] = @ + 1]
                         /\ IF r.raised
                            THEN /\ obs' = ObsFail(ObsCall(o, self.tag), self.tag)
                                 /\ SINGLETON_CACHE' =
                                        CacheStore(SINGLETON_CACHE, self.tag, <<"raised">>)
                            ELSE /\ SINGLETON_CACHE' =
                                        CacheStore(SINGLETON_CACHE, self.tag, r.value)
                                 /\ obs' = ObsYield(ObsCall(o, self.tag),
                                                    self.tag, r.value)
           ELSE /\ obs' = ObsYield(o, self.tag, cache_entry)
                /\ UNCHANGED <<SINGLETON_CACHE, gen_state>>
    /\ UNCHANGED <<objs, thr, repeatVars, cmpVars, deferredVars, flat>>

\* next(self.compose()) run to its yield (or to the exception it raises) by
\* a single caller.
Cached_compose(i) ==
    /\ i \in 1..Len(objs)
    /\ obs.composes < MaxComposes
    /\ LET self == objs[i]
           cache_entry == CacheGet(SINGLETON_CACHE, self.tag)
           o == [obs EXCEPT !.composes = @ + 1]
       IN  IF IsMiss(cache_entry)
           THEN IF self.args = None
                THEN \* *self.args with args None: TypeError before the call
                     /\ obs' = o
                     /\ UNCHANGED <<SINGLETON_CACHE, gen_state>>
                ELSE LET g == self.subbloq_gen
                         r == SubbloqGenCall(g, self.args, gen_state[g])
                     IN  /\ gen_state' = [gen_state EXCEPT ![g] = @ + 1]
                         /\ IF r.raised
                            THEN /\ obs' = ObsFail(ObsCall(o, self.tag), self.tag)
                                 /\ UNCHANGED SINGLETON_CACHE
                            ELSE /\ SINGLETON_CACHE' =
                                        CacheStore(SINGLETON_CACHE, self.tag, r.value)
                                 /\ obs' = ObsYield(ObsCall(o, self.tag),
                                                    self.tag, r.value)
           ELSE /\ obs' = ObsYield(o, self.tag, cache_entry)
                /\ UNCHANGED <<SINGLETON_CACHE, gen_state>>
    /\ UNCHANGED <<objs, thr, repeatVars, cmpVars, deferredVars, flat>>

NextCached ==
    \/ \E tag \in Tags, g \in Gens : NewCached(tag, g)
    \/ \E i \in 1..MaxObjs, a \in BoundArgs : bind_params(i, a)
    \/ \E i \in 1..MaxObjs : Cached_compose(i)

SpecCached == InitCached /\ [][NextCached]_vars

(***************************************************************************)
(* Deferred (deferred.py)                                                  *)
(***************************************************************************)
\* What a caller may pass as *args to the constructor: nothing, or arguments.
GivenArgs == {None, <<"args", 1>>}

\* Deferred.__init__(subbloq_gen, *args): the generator is stored; self.args
\* and self.kwargs are set to None, whatever args holds
DeferredInit(subbloq_gen, args) ==
    [subbloq_gen |-> subbloq_gen, args |-> None]

\* What is observed of one Deferred: the args its constructor was given,
\* whether bind_params has been called, its decompositions, the calls of its
\* generator (and with which args), the TypeErrors of `*None`, the values
\* yielded.
NoDobs(given) ==
    [given |-> given, bound |-> FALSE, composes |-> 0, calls |-> 0, fails |-> 0,
     errs |-> 0, lastargs |-> None, yielded |-> << >>]

\* next(self.compose()) memoized: the first value yielded is yielded again
ComposeDeferredMut(self, o, n) ==
    IF self.args = None
    THEN [o EXCEPT !.composes = @ + 1, !.errs = @ + 1]
    ELSE IF o.yielded # << >>
    THEN [o EXCEPT !.composes = @ + 1, !.yielded = Append(@, o.yielded[1])]
    ELSE LET r == SubbloqGenCall(self.subbloq_gen, self.args, n)
         IN  [o EXCEPT !.composes = @ + 1, !.calls = @ + 1,
                       !.lastargs = self.args,
                       !.fails = IF r.raised THEN @ + 1 ELSE @,
                       !.yielded = IF r.raised THEN @ ELSE Append(@, r.value)]

\* next(self.compose()) for a Deferred (lines 63-67), as seen by the observer
\* o of the instance; n is the number of earlier calls of the generator.
ComposeDeferred(self, o, n) ==
    IF self.args = None
    THEN \* *self.args with args None: TypeError before the call
         [o EXCEPT !.composes = @ + 1, !.errs = @ + 1]
    ELSE LET r == SubbloqGenCall(self.subbloq_gen, self.args, n)
         IN  [o EXCEPT !.composes = @ + 1, !.calls = @ + 1,
                       !.lastargs = self.args,
                       !.fails = IF r.raised THEN @ + 1 ELSE @,
                       !.yielded = IF r.raised THEN @ ELSE Append(@, r.value)]

RECURSIVE SumComposes(_)
\* the decompositions of all Deferred instances so far
SumComposes(os) ==
    IF os = << >> THEN 0 ELSE Head(os).composes + SumComposes(Tail(os))

\* Deferred(subbloq_gen, *given)
NewDeferred(g, given) ==
    /\ Len(dfrs) < MaxDeferred
    /\ dfrs' = Append(dfrs, DeferredInit(g, given))
    /\ dobs' = Append(dobs, NoDobs(given))
    /\ UNCHANGED <<cachedVars, repeatVars, cmpVars, flat>>

\* MetaBloq.bind_params(*args) on a Deferred
Deferred_bind_params(i, a) ==
    /\ i \in 1..Len(dfrs)
    /\ dfrs[i].args # a
    /\ dfrs' = [dfrs EXCEPT ![i].args = a]
    /\ dobs' = [dobs EXCEPT ![i].bound = TRUE]
    /\ UNCHANGED <<cachedVars, repeatVars, cmpVars, flat>>

\* next(self.compose()) run to its yield, or to the exception it raises
Deferred_compose(i) ==
    /\ i \in 1..Len(dfrs)
    /\ SumComposes(dobs) < MaxComposes
    /\ LET self == dfrs[i]
           g == self.subbloq_gen
           o == ComposeDeferred(self, dobs[i], gen_state[g])
       IN  /\ dobs' = [dobs EXCEPT ![i] = o]
           /\ gen_state' = [gen_state EXCEPT ![g] = @ + (o.calls - dobs[i].calls)]
    /\ UNCHANGED <<SINGLETON_CACHE, objs, obs, thr, dfrs, repeatVars, cmpVars, flat>>

NextDeferred ==
    \/ \E g \in Gens, given \in GivenArgs : NewDeferred(g, given)
    \/ \E i \in 1..MaxDeferred, a \in BoundArgs : Deferred_bind_params(i, a)
    \/ \E i \in 1..MaxDeferred : Deferred_compose(i)

SpecDeferred == InitCached /\ [][NextDeferred]_vars

(***************************************************************************)
(* Cached.compose run by several threads: each thread is at a line of      *)
(* compose between two steps, and the steps of different threads           *)
(* interleave freely (nothing in compose takes a lock).                    *)
(***************************************************************************)
\* compose() entered and line 120 run: the lookup
T_lookup(t, i) ==
    /\ i \in 1..Len(objs)
    /\ obs.composes < MaxComposes
    /\ thr[t].pc = "idle"
    /\ thr' = [thr EXCEPT ![t] =
                 [pc |-> "l122", obj |-> i,
                  cache_entry |-> CacheGet(SINGLETON_CACHE, objs[i].tag),
                  bloq |-> None]]
    /\ obs' = [obs EXCEPT !.composes = @ + 1]
    /\ UNCHANGED <<SINGLETON_CACHE, objs, gen_state, repeatVars, cmpVars, deferredVars, flat>>

\* lines 122-126 on a miss: the generator call (or the TypeError of unbound args)
T_invoke(t) ==
    /\ thr[t].pc = "l122"
    /\ IsMiss(thr[t].cache_entry)
    /\ LET self == objs[thr[t].obj]
           g == self.subbloq_gen
           r == SubbloqGenCall(g, self.args, gen_state[g])
       IN  IF self.args = None
           THEN /\ thr' = [thr EXCEPT ![t] = IdleThread]
                /\ UNCHANGED <<gen_state, obs>>
           ELSE /\ gen_state' = [gen_state EXCEPT ![g] = @ + 1]
                /\ IF r.raised
                   THEN /\ thr' = [thr EXCEPT ![t] = IdleThread]
                        /\ obs' = ObsFail(ObsCall(obs, self.tag), self.tag)
                   ELSE /\ thr' = [thr EXCEPT ![t].pc = "l127", ![t].bloq = r.value]
                        /\ obs' = ObsCall(obs, self.tag)
    /\ UNCHANGED <<SINGLETON_CACHE, objs, repeatVars, cmpVars, deferredVars, flat>>

\* lines 127-128: the insert and the yield of the new bloq
T_store(t) ==
    /\ thr[t].pc = "l127"
    /\ LET self == objs[thr[t].obj]
       IN  /\ SINGLETON_CACHE' = CacheStore(SINGLETON_CACHE, self.tag, thr[t].bloq)
           /\ obs' = ObsYield(obs, self.tag, thr[t].bloq)
    /\ thr' = [thr EXCEPT ![t] = IdleThread]
    /\ UNCHANGED <<objs, gen_state, repeatVars, cmpVars, deferredVars, flat>>

\* lines 129-130 on a hit: the yield of the stored entry
T_hit(t) ==
    /\ thr[t].pc = "l122"
    /\ ~IsMiss(thr[t].cache_entry)
    /\ obs' = ObsYield(obs, objs[thr[t].obj].tag, thr[t].cache_entry)
    /\ thr' = [thr EXCEPT ![t] = IdleThread]
    /\ UNCHANGED <<SINGLETON_CACHE, objs, gen_state, repeatVars, cmpVars, deferredVars, flat>>

NextConc ==
    \/ \E tag \in Tags, g \in Gens : NewCached(tag, g)
    \/ \E i \in 1..MaxObjs, a \in BoundArgs : bind_params(i, a)
    \/ \E t \in 1..NThreads, i \in 1..MaxObjs : T_lookup(t, i)
    \/ \E t \in 1..NThreads : T_invoke(t)
    \/ \E t \in 1..NThreads : T_store(t)
    \/ \E t \in 1..NThreads : T_hit(t)

SpecConc == InitCached /\ [][NextConc]_vars

(***************************************************************************)
(* Claims about Cached                                                     *)
(***************************************************************************)
\* Generators that return a bloq (never None) and never raise.
ReturnsBloq(g) == g \in {"const", "fresh"}

TagReturnsBloq(T) ==
    \A i \in 1..Len(objs) : objs[i].tag = T => ReturnsBloq(objs[i].subbloq_gen)

\* C1: for every tag whose generator calls all returned (whatever the value),
\* the generator is invoked at most once in total on behalf of the tag, and
\* exactly once as soon as one decomposition has yielded.
C1_OneInvocationPerTag ==
    \A T \in Tags :
        obs.fails[T] = 0 =>
            /\ obs.calls[T] <= 1
            /\ (obs.yields[T] >= 1 => obs.calls[T] = 1)

\* C5: an entry of the SingletonCache is never evicted or overwritten, and a
\* later decomposition of its tag yields the stored value.
C5_EntryNeverOverwritten ==
    [][\A T \in DOMAIN SINGLETON_CACHE :
          /\ T \in DOMAIN SINGLETON_CACHE'
          /\ SINGLETON_CACHE'[T] = SINGLETON_CACHE[T]
          /\ (obs'.yields[T] > obs.yields[T] => obs'.last[T] = SINGLETON_CACHE[T])]_vars

\* C8: under every interleaving of the threads' lookup, call and insert steps
\* the generator of a tag (one that returns a bloq) is invoked at most once.
C8_OneInvocationUnderThreads ==
    \A T \in Tags : TagReturnsBloq(T) => obs.calls[T] <= 1

\* C27: a decomposition that fails on the miss path (the generator raises, or
\* the arguments are unbound) leaves the SingletonCache as it was, with no
\* entry stored for the tag, so that the tag is still a miss; a decomposition
\* yields without a generator call only when the tag has an entry.
C27_FailedMissLeavesCache ==
    [][/\ (obs'.composes > obs.composes /\ obs'.yields = obs.yields) =>
              SINGLETON_CACHE' = SINGLETON_CACHE
       /\ \A T \in Tags :
              /\ obs'.fails[T] > obs.fails[T] =>
                    /\ IsMiss(CacheGet(SINGLETON_CACHE, T))
                    /\ SINGLETON_CACHE' = SINGLETON_CACHE
                    /\ IsMiss(CacheGet(SINGLETON_CACHE', T))
              /\ (obs'.yields[T] > obs.yields[T] /\ obs'.calls[T] = obs.calls[T]) =>
                    ~IsMiss(CacheGet(SINGLETON_CACHE, T))]_vars

C27_Witness ==
    \E T \in Tags :
        /\ obs.fails[T] = 1
        /\ obs.calls[T] = 2
        /\ obs.yields[T] = 1
        /\ obs.composes = 3
        /\ T \in DOMAIN SINGLETON_CACHE
        /\ obs.last[T] = SINGLETON_CACHE[T]

\* C28: a decomposition of a Cached with tag T changes the SingletonCache at
\* most at T, and only when T had no entry; the entries of the other tags are
\* kept; a decomposition of a tag that has an entry leaves the whole cache as
\* it was; steps of a Deferred or of a Repeat leave it as it was.
C28_OnlyOwnEntryOnlyOnMiss ==
    [][/\ \A T \in Tags :
              /\ CacheGet(SINGLETON_CACHE', T) # CacheGet(SINGLETON_CACHE, T) =>
                    /\ obs'.calls[T] > obs.calls[T]
                    /\ T \notin DOMAIN SINGLETON_CACHE
                    /\ \A U \in Tags \ {T} :
                          /\ obs'.calls[U] = obs.calls[U]
                          /\ (U \in DOMAIN SINGLETON_CACHE' <=>
                                 U \in DOMAIN SINGLETON_CACHE)
                          /\ CacheGet(SINGLETON_CACHE', U) =
                                 CacheGet(SINGLETON_CACHE, U)
              /\ (T \in DOMAIN SINGLETON_CACHE
                      /\ (obs'.yields[T] > obs.yields[T]
                              \/ obs'.fails[T] > obs.fails[T])) =>
                    SINGLETON_CACHE' = SINGLETON_CACHE
       /\ (dobs' # dobs \/ rep' # rep \/ its' # its \/ flat' # flat) =>
              SINGLETON_CACHE' = SINGLETON_CACHE]_vars

(***************************************************************************)
(* Claims about Deferred                                                   *)
(***************************************************************************)
\* C15: each decomposition of a Deferred with bound arguments calls the
\* generator exactly once, with the arguments bound at that moment, and
\* yields the value of that very call (nothing if the call raises); so the
\* calls of an instance are as many as its decompositions with bound
\* arguments, and nothing is yielded that was not just generated.
C15_DeferredInvokesEveryTime ==
    [][\A i \in 1..Len(dfrs) :
          LET self == dfrs[i]
              g == self.subbloq_gen
          IN  /\ dobs[i].calls = dobs[i].composes - dobs[i].errs
              /\ Len(dobs[i].yielded) = dobs[i].calls - dobs[i].fails
              /\ (dobs'[i].composes = dobs[i].composes + 1 /\ self.args # None) =>
                    /\ dobs'[i].calls = dobs[i].calls + 1
                    /\ gen_state'[g] = gen_state[g] + 1
                    /\ dobs'[i].lastargs = self.args
                    /\ LET r == SubbloqGenCall(g, self.args, gen_state[g])
                       IN  IF r.raised
                           THEN dobs'[i].yielded = dobs[i].yielded
                           ELSE dobs'[i].yielded = Append(dobs[i].yielded, r.value)]_vars

C15_Witness ==
    \E i \in 1..Len(dfrs) :
        /\ dfrs[i].subbloq_gen = "fresh"
        /\ dobs[i].composes = 3
        /\ dobs[i].calls = 3
        /\ Len(dobs[i].yielded) = 3
        /\ \A j, k \in 1..3 : j # k => dobs[i].yielded[j] # dobs[i].yielded[k]

\* C16: a Deferred constructed with arguments, and never bound through
\* bind_params, calls its generator with exactly those arguments on every
\* decomposition.
C16_DirectArgsAreUsed ==
    \A i \in 1..Len(dfrs) :
        (dobs[i].given # None /\ ~dobs[i].bound /\ dobs[i].composes > 0) =>
            /\ dobs[i].calls = dobs[i].composes
            /\ dobs[i].lastargs = dobs[i].given

(***************************************************************************)
(* Repeat (repeat.py)                                                      *)
(***************************************************************************)
\* What may be handed to Repeat as subbloq: a qualtran.Bloq, a cirq.Gate (a
\* pure one, one whose call returns a new operation each time, one whose first
\* call raises), a cirq.Circuit (without moments, or with two moments), or
\* something that is none of them.  ("gate_repeat", a gate whose call returns
\* a Repeat of the circuit, is used where nestings are flattened.)
Subbloqs == {"bloq", "gate", "gate_stateful", "gate_flaky",
             "circuit_empty", "circuit", "other"}

IsBloq(sb) == sb = "bloq"
IsGate(sb) == sb \in {"gate", "gate_stateful", "gate_flaky", "gate_repeat"}
IsCircuit(sb) == sb \in {"circuit_empty", "circuit"}

RepeatArgs == {0}

\* The moments of a cirq.Circuit, each a sequence of operations.
Moments(sb) ==
    IF sb = "circuit"
    THEN << <<Op("H", {0}), Op("H", {1})>>, <<Op("CNOT", {0, 1})>> >>
    ELSE << >>

\* An option value: Python's None, or a value.
Nothing == << >>
Some(x) == <<x>>

\* `self._cached is None`
CachedIsNoneMut(c) == TRUE
CachedIsNone(c) == c = Nothing

\* Repeat.__init__: the fields, and the decomposer chosen by the type of subbloq
RepeatInit(sb, args, n, caching) ==
    [subbloq |-> sb, args |-> args, n_repetitions |-> n, caching |-> caching,
     _cached |-> Nothing,
     _decompose |-> IF IsBloq(sb) THEN "_qualtran_bloq_decomp"
                    ELSE IF IsGate(sb) THEN "_cirq_gate_decomp"
                    ELSE IF IsCircuit(sb) THEN "_cirq_circuit_decomp"
                    ELSE "None"]

RECURSIVE FlatSeq(_)
\* `for moment in ...: yield from moment`, and the concatenation of sequences
FlatSeq(ss) == IF ss = << >> THEN << >> ELSE Head(ss) \o FlatSeq(Tail(ss))

\* self.subbloq(*self.args, **self.kwargs), the n-th call (from 0) of the gate
GateCall(sb, args, n) ==
    CASE sb = "gate"          -> [raised |-> FALSE, seq |-> <<Op("X", {args})>>]
      [] sb = "gate_stateful" -> [raised |-> FALSE, seq |-> <<Op("X", {args + n})>>]
      [] sb = "gate_repeat"   ->
            [raised |-> FALSE,
             seq |-> <<RepeatInit("circuit", <<0, FALSE>>, args[1], args[2])>>]
      [] OTHER                -> IF n = 0
                                 THEN [raised |-> TRUE, seq |-> << >>]
                                 ELSE [raised |-> FALSE, seq |-> <<Op("X", {args})>>]

\* self._decompose() run to its end: _qualtran_bloq_decomp, _cirq_gate_decomp or
\* _cirq_circuit_decomp, as chosen in the constructor; n is the number of earlier
\* evaluations.
Decompose(self, n) ==
    CASE self._decompose = "_qualtran_bloq_decomp" ->
            [raised |-> FALSE, seq |-> <<Op("to_cirq_circuit", {self.args})>>]
      [] self._decompose = "_cirq_gate_decomp" ->
            GateCall(self.subbloq, self.args, n)
      [] self._decompose = "_cirq_circuit_decomp" ->
            [raised |-> FALSE, seq |-> FlatSeq(Moments(self.subbloq))]
      [] OTHER ->
            \* self._decompose is None: the call of None raises
            [raised |-> TRUE, seq |-> << >>]

\* range(self.n_repetitions): the number of iterations of the loop of decompose
RangeLenMut(n) == IF n > 1 THEN n - 1 ELSE 0
RangeLen(n) == IF n > 0 THEN n ELSE 0

\* The iterations of the generator: those of decompose(), or the single
\* expansion of decompose_once().
IterationsMut(self, mode) == 1
Iterations(self, mode) ==
    IF mode = "decompose" THEN RangeLen(self.n_repetitions) ELSE 1

\* A generator object just returned by decompose() or decompose_once(): none of
\* its code has run.
NewFrame(mode) ==
    [mode |-> mode, state |-> "running", rep |-> 0, active |-> FALSE,
     decomp |-> << >>, pos |-> 0, out |-> << >>, log |-> << >>]

\* `yield from decomp` is reached with the expansion decomp
YieldFromMut(m, decomp) ==
    [m EXCEPT !.it.active = TRUE, !.it.decomp = decomp, !.it.pos = 0,
              !.it.log = Append(@, decomp), !.evals = @ + 1]
YieldFrom(m, decomp) ==
    [m EXCEPT !.it.active = TRUE, !.it.decomp = decomp, !.it.pos = 0,
              !.it.log = Append(@, decomp)]

\* decompose_once() without the cache: the strategy is evaluated on every call
DecomposeOnceMut(m) ==
    LET r == Decompose(m.self, m.evals)
    IN  IF r.raised
        THEN [m EXCEPT !.evals = @ + 1, !.it.state = "raised"]
        ELSE YieldFrom([m EXCEPT !.evals = @ + 1, !.done = @ + 1], r.seq)

\* decompose_once() storing the expansion whether caching is set or not
DecomposeOnceStoresMut(m) ==
    LET r == Decompose(m.self, m.evals)
    IN  IF r.raised
        THEN [m EXCEPT !.evals = @ + 1, !.it.state = "raised"]
        ELSE YieldFrom([m EXCEPT !.evals = @ + 1, !.done = @ + 1,
                                 !.self._cached = Some(r.seq)], r.seq)

\* tuple(self._decompose()): the generator is consumed to its end
TupleMut(seq) == SubSeq(seq, 1, Len(seq) - 1)
Tuple(seq) == seq

\* decompose_once() up to `yield from decomp`, on the machine m = [self, it,
\* evals, done]: evals counts the evaluations of self._decompose() begun, done
\* those that ran to their end.
DecomposeOnce(m) ==
    LET self == m.self
        r == Decompose(self, m.evals)
        evaluated == [m EXCEPT !.evals = @ + 1, !.done = @ + 1]
    IN  IF self.caching
        THEN IF CachedIsNone(self._cached)
             THEN IF r.raised
                  THEN [m EXCEPT !.evals = @ + 1, !.it.state = "raised"]
                  ELSE YieldFrom([evaluated EXCEPT
                                    !.self._cached = Some(Tuple(r.seq))],
                                 Tuple(r.seq))
             ELSE YieldFrom(m, self._cached[1])
        ELSE IF r.raised
             THEN [m EXCEPT !.evals = @ + 1, !.it.state = "raised"]
             ELSE YieldFrom(evaluated, r.seq)

RECURSIVE RunToYield(_)
\* next(it): the generator runs to its next yield, to its end or to an exception
RunToYield(m) ==
    LET f == m.it
    IN  IF f.active /\ f.pos < Len(f.decomp)
        THEN [m EXCEPT !.it.pos = @ + 1, !.it.out = Append(@, f.decomp[f.pos + 1])]
        ELSE LET rep1 == IF f.active THEN f.rep + 1 ELSE f.rep
                 m1 == [m EXCEPT !.it.rep = rep1, !.it.active = FALSE,
                                 !.it.decomp = << >>, !.it.pos = 0]
             IN  IF rep1 >= Iterations(m.self, f.mode)
                 THEN [m1 EXCEPT !.it.state = "done"]
                 ELSE LET m2 == DecomposeOnce(m1)
                      IN  IF m2.it.state = "raised" THEN m2 ELSE RunToYield(m2)

\* the `else: raise TypeError` of the dispatch in Repeat.__init__
RaisesTypeErrorMut(sb) == FALSE
RaisesTypeError(sb) == ~(IsBloq(sb) \/ IsGate(sb) \/ IsCircuit(sb))

\* Repeat(subbloq, *args, n_repetitions=n, caching=caching)
NewRepeat(sb, args, n, caching) ==
    /\ rep = NoRepeat
    /\ IF ~RaisesTypeError(sb)
       THEN /\ rep' = RepeatInit(sb, args, n, caching)
            /\ robs' = [robs EXCEPT !.err = "none", !.tried = sb]
       ELSE /\ rep' = rep
            /\ robs' = [robs EXCEPT !.err = "TypeError", !.tried = sb]
    /\ UNCHANGED <<its, cachedVars, cmpVars, deferredVars, flat>>

\* it = self.decompose() or it = self.decompose_once(): a generator is created
StartIter(mode) ==
    /\ rep # NoRepeat
    /\ robs.starts < MaxStarts
    /\ its' = Append(its, NewFrame(mode))
    /\ robs' = [robs EXCEPT !.starts = @ + 1]
    /\ UNCHANGED <<rep, cachedVars, cmpVars, deferredVars, flat>>

\* next(its[i])
NextItem(i) ==
    /\ i \in 1..Len(its)
    /\ its[i].state = "running"
    /\ LET m == RunToYield([self |-> rep, it |-> its[i],
                            evals |-> robs.evals, done |-> robs.done])
       IN  /\ rep' = m.self
           /\ its' = [its EXCEPT ![i] = m.it]
           /\ robs' = [robs EXCEPT
                         !.evals = m.evals, !.done = m.done,
                         !.hist = IF m.it.state = "done" /\ m.it.mode = "decompose"
                                  THEN Append(@, m.it.out) ELSE @]
    /\ UNCHANGED <<cachedVars, cmpVars, deferredVars, flat>>

\* the generator its[i] is dropped, consumed or not
Abandon(i) ==
    /\ i \in 1..Len(its)
    /\ its' = [j \in 1..(Len(its) - 1) |-> IF j < i THEN its[j] ELSE its[j + 1]]
    /\ UNCHANGED <<rep, robs, cachedVars, cmpVars, deferredVars, flat>>

\* What self.subbloq.decompose_from_registers(*args, context, quregs) does
\* when called as line 160 or 168 calls it: it returns a one-pass iterator (a
\* generator) over the operations, it returns a list of them, or the call
\* raises (a subbloq without the method, or one that takes context and quregs
\* by keyword only).
InnerReturns == {"iterator", "list", "raises"}

\* The operations the subbloq's decompose_from_registers produces.
InnerRegisterOps(sb) ==
    IF IsBloq(sb) THEN <<Op("H", {0}), Op("CNOT", {0, 1})>> ELSE << >>

\* `yield from ops`: what is yielded, and ops afterwards
YieldFromOps(ops) ==
    IF ops.kind = "list"
    THEN [out |-> ops.items, ops |-> ops]
    ELSE [out |-> SubSeq(ops.items, ops.pos + 1, Len(ops.items)),
          ops |-> [ops EXCEPT !.pos = Len(ops.items)]]

RECURSIVE RepeatOps(_, _)
\* `for _ in range(k): yield from ops`
RepeatOps(ops, k) ==
    IF k = 0 THEN << >>
    ELSE LET y == YieldFromOps(ops)
         IN  y.out \o RepeatOps(y.ops, k - 1)

\* Repeat.decompose_from_registers run to its end, the subbloq's method
\* having returned `returned` (lines 158-171)
decompose_from_registers(self, returned) ==
    LET ops == IF self.caching
               THEN \* cached_obj = list(...); ops = iter(cached_obj)
                    [kind |-> "iterator", items |-> returned.items, pos |-> 0]
               ELSE returned
    IN  RepeatOps(ops, RangeLen(self.n_repetitions))

\* list(self.decompose_from_registers(context=..., **quregs))
Repeat_decompose_from_registers(inner) ==
    /\ rep # NoRepeat
    /\ IF inner = "raises" \/ ~IsBloq(rep.subbloq)
       THEN robs' = [robs EXCEPT !.dfr = <<[raised |-> TRUE, out |-> << >>]>>]
       ELSE robs' = [robs EXCEPT !.dfr =
                       <<[raised |-> FALSE,
                          out |-> decompose_from_registers(rep,
                                     [kind |-> inner,
                                      items |-> InnerRegisterOps(rep.subbloq),
                                      pos |-> 0])]>>]
    /\ UNCHANGED <<rep, its, cachedVars, cmpVars, deferredVars, flat>>

InitRepeat ==
    /\ CachedIdle
    /\ DeferredIdle
    /\ RepeatIdle
    /\ CmpIdle

NextRepeat ==
    \/ \E sb \in Subbloqs, a \in RepeatArgs, n \in (-1)..MaxReps, c \in BOOLEAN :
          NewRepeat(sb, a, n, c)
    \/ \E mode \in {"decompose", "decompose_once"} : StartIter(mode)
    \/ \E i \in 1..MaxStarts : NextItem(i)
    \/ \E i \in 1..MaxStarts : Abandon(i)
    \/ \E inner \in InnerReturns : Repeat_decompose_from_registers(inner)

SpecRepeat == InitRepeat /\ [][NextRepeat]_vars

(***************************************************************************)
(* The flattener (spec 4.4; generator_decompose of                         *)
(* pyLIQTR/utils/circuit_decomposition.py): it drives decompose() on every *)
(* meta-bloq it meets, depth first, until only operations remain.  The     *)
(* roots are Repeats of the two-moment circuit, and Repeats of a gate      *)
(* whose call returns such a Repeat.                                       *)
(***************************************************************************)
IsMetaBloq(x) == "n_repetitions" \in DOMAIN x

RECURSIVE Drain(_)
\* the generator of the machine m consumed to its end
Drain(m) == IF m.it.state # "running" THEN m ELSE Drain(RunToYield(m))

\* list(self.decompose())
DecomposeAll(self) ==
    Drain([self |-> self, it |-> NewFrame("decompose"), evals |-> 0, done |-> 0]).it.out

RECURSIVE flatten(_)
\* flatten(root): the operations of root, those of a nested meta-bloq in the
\* place where the decomposition of its parent produced it
flatten(x) ==
    IF ~IsMetaBloq(x) THEN <<x>>
    ELSE LET d == DecomposeAll(x)
         IN  FlatSeq([k \in 1..Len(d) |-> flatten(d[k])])

FlattenRoots ==
    {RepeatInit("circuit", <<0, FALSE>>, n, c) : n \in (-1)..MaxReps, c \in BOOLEAN}
      \cup {RepeatInit("gate_repeat", <<m, c2>>, n, c1) :
                n \in (-1)..MaxReps, m \in (-1)..MaxReps, c1 \in BOOLEAN, c2 \in BOOLEAN}

\* it = flatten(root): the lazy sequence is created
FlattenStart(root) ==
    /\ flat.state = "none"
    /\ flat' = [state |-> "running", root |-> root, out |-> << >>]
    /\ UNCHANGED <<cachedVars, repeatVars, cmpVars, deferredVars>>

\* next(it): the next operation, or the end of the sequence
FlattenNext ==
    /\ flat.state = "running"
    /\ LET all == flatten(flat.root)
       IN  IF Len(flat.out) < Len(all)
           THEN flat' = [flat EXCEPT !.out = Append(@, all[Len(flat.out) + 1])]
           ELSE flat' = [flat EXCEPT !.state = "done"]
    /\ UNCHANGED <<cachedVars, repeatVars, cmpVars, deferredVars>>

NextFlatten ==
    \/ \E root \in FlattenRoots : FlattenStart(root)
    \/ FlattenNext

SpecFlatten == InitRepeat /\ [][NextFlatten]_vars

(***************************************************************************)
(* Claims about Repeat                                                     *)
(***************************************************************************)
\* n copies of the sequence s, concatenated
Copies(s, n) == FlatSeq([k \in 1..n |-> s])

\* C2: a fully consumed decompose() of a Repeat with n_repetitions = n >= 0 has
\* yielded the concatenation, in order, of exactly n results of decompose_once()
\* (for a circuit: n copies of its operations), and nothing for n = 0.
C2_DecomposeIsNCopies ==
    \A i \in 1..Len(its) :
        (its[i].state = "done" /\ its[i].mode = "decompose" /\ rep.n_repetitions >= 0) =>
            /\ Len(its[i].log) = rep.n_repetitions
            /\ its[i].out = FlatSeq(its[i].log)
            /\ (rep.n_repetitions = 0 => its[i].out = << >>)
            /\ (IsCircuit(rep.subbloq) =>
                  its[i].out = Copies(FlatSeq(Moments(rep.subbloq)), rep.n_repetitions))

C2_Witness ==
    \E i \in 1..Len(its) :
        /\ its[i].state = "done" /\ its[i].mode = "decompose"
        /\ rep.subbloq = "circuit" /\ rep.n_repetitions = 2
        /\ Len(its[i].out) = 6

\* C6 as stated: with caching, the one-expansion strategy is evaluated at most
\* once over any sequence of decompose() and decompose_once() calls.
C6_EvaluatedAtMostOnce ==
    (rep # NoRepeat /\ rep.caching) => robs.evals <= 1

\* C6 as amended: with caching, at most one evaluation of the strategy runs to
\* its end (one that raises stores nothing and is retried by the next
\* decompose_once()); once one has, the strategy is not evaluated again, the
\* stored collection is not replaced, and every decompose_once() yields from it.
C6_EvaluatedToCompletionOnce ==
    [][(rep # NoRepeat /\ rep.caching) =>
          /\ robs'.done <= 1
          /\ (~CachedIsNone(rep._cached) =>
                 /\ robs'.evals = robs.evals
                 /\ rep'._cached = rep._cached)
          /\ \A i \in 1..Len(its') :
                 its'[i].active =>
                     /\ ~CachedIsNone(rep'._cached)
                     /\ its'[i].decomp = rep'._cached[1]]_vars

C6_Witness ==
    /\ rep # NoRepeat /\ rep.caching /\ rep.n_repetitions = 2
    /\ robs.evals = 2 /\ robs.done = 1
    /\ Len(robs.hist) >= 1

\* C7: with caching, every completed decomposition after the first has yielded
\* a sequence pointwise equal to the first one's, whatever the gate returns on
\* each of its calls.
C7_LaterDecompositionsEqualFirst ==
    (rep # NoRepeat /\ rep.caching) =>
        \A k \in 1..Len(robs.hist) : robs.hist[k] = robs.hist[1]

C7_Witness ==
    /\ rep # NoRepeat /\ rep.caching /\ rep.subbloq = "gate_stateful"
    /\ rep.n_repetitions >= 1
    /\ Len(robs.hist) >= 2

\* C11: no Repeat with a negative repetition count exists: its construction
\* fails (with a NegativeRepetitionError), so none is ever decomposed.
C11_NoNegativeRepetitions ==
    /\ (rep # NoRepeat => rep.n_repetitions >= 0)
    /\ (robs.starts > 0 => rep.n_repetitions >= 0)

\* The decomposer the dispatch of the constructor selects for a subbloq.
StrategyOf(sb) ==
    IF IsBloq(sb) THEN "_qualtran_bloq_decomp"
    ELSE IF IsGate(sb) THEN "_cirq_gate_decomp" ELSE "_cirq_circuit_decomp"

\* C12: a constructor call with a subbloq of none of the three kinds raises
\* TypeError and leaves no Repeat; a constructed Repeat has exactly the one
\* decomposer of its subbloq's kind, which no later step changes; and a
\* decomposition only ever fails by the exception the gate's own call raised.
C12_TypeErrorOnlyAtConstruction ==
    [][/\ (robs'.tried = "other" => (robs'.err = "TypeError" /\ rep' = NoRepeat))
       /\ (robs'.err = "TypeError" => (robs'.tried = "other" /\ rep' = NoRepeat))
       /\ (rep' # NoRepeat =>
              /\ IsBloq(rep'.subbloq) \/ IsGate(rep'.subbloq) \/ IsCircuit(rep'.subbloq)
              /\ rep'._decompose = StrategyOf(rep'.subbloq)
              /\ robs'.err = "none")
       /\ (rep # NoRepeat =>
              /\ rep' # NoRepeat
              /\ rep'._decompose = rep._decompose
              /\ rep'.subbloq = rep.subbloq)
       /\ \A i \in 1..Len(its') :
              its'[i].state = "raised" => rep'.subbloq = "gate_flaky"]_vars

C12_Witness ==
    /\ robs.tried = "other"
    /\ robs.err = "TypeError"
    /\ rep = NoRepeat
    /\ its = << >>

\* C20: the flattened sequence holds operations only, and for a Repeat of n
\* repetitions whose inner decomposes to a Repeat of m repetitions of the
\* circuit S (n, m >= 0) it is S repeated m * n times, in order; what has been
\* pulled so far is a prefix of it.
C20_FlattenNestedRepeats ==
    LET root == flat.root
        S == FlatSeq(Moments("circuit"))
    IN  flat.state # "none" =>
            /\ \A k \in 1..Len(flat.out) : ~IsMetaBloq(flat.out[k])
            /\ (root.subbloq = "gate_repeat"
                    /\ root.n_repetitions >= 0 /\ root.args[1] >= 0) =>
                  LET whole == Copies(S, root.args[1] * root.n_repetitions)
                  IN  /\ Len(flat.out) <= Len(whole)
                      /\ flat.out = SubSeq(whole, 1, Len(flat.out))
                      /\ (flat.state = "done" => flat.out = whole)

C20_Witness ==
    /\ flat.state = "done"
    /\ flat.root.subbloq = "gate_repeat"
    /\ flat.root.n_repetitions = 2
    /\ flat.root.args[1] = 2
    /\ Len(flat.out) = 12

\* C21: in every generator of the Repeat the expansions are emitted one after
\* the other, each one whole before the next; an expansion is begun only when
\* all elements of the earlier ones have been emitted; without caching every
\* expansion begun is one evaluation of the strategy, so a decomposition of
\* n repetitions consumed to its end has made exactly n of them.
C21_RepetitionsSequential ==
    [][(rep # NoRepeat /\ Len(its') = Len(its)) =>
          \A i \in 1..Len(its) :
              LET f == its[i]
                  g == its'[i]
              IN  /\ g.out = FlatSeq(SubSeq(g.log, 1, g.rep)) \o
                                 SubSeq(g.decomp, 1, g.pos)
                  /\ (Len(g.log) > Len(f.log) => f.out = FlatSeq(f.log))
                  /\ (g # f /\ ~rep.caching) =>
                        robs'.evals - robs.evals =
                            (Len(g.log) - Len(f.log))
                              + (IF g.state = "raised" THEN 1 ELSE 0)
                  /\ (g.state = "done" /\ g.mode = "decompose" /\ ~rep.caching
                          /\ rep.n_repetitions >= 0) =>
                        Len(g.log) = rep.n_repetitions]_vars

C21_Witness ==
    /\ rep # NoRepeat /\ ~rep.caching /\ rep.subbloq = "gate_stateful"
    /\ rep.n_repetitions = 2
    /\ robs.evals = 2
    /\ \E i \in 1..Len(its) :
          /\ its[i].state = "done" /\ its[i].mode = "decompose"
          /\ Len(its[i].out) = 2
          /\ its[i].out[1] # its[i].out[2]

\* C22: no step changes the subbloq, the arguments, the repetitions, the
\* caching flag or the decomposer of a constructed Repeat; only _cached is
\* written, and never when caching is off.
C22_ConfigurationNeverWritten ==
    [][rep # NoRepeat =>
          /\ rep'.subbloq = rep.subbloq
          /\ rep'.args = rep.args
          /\ rep'.n_repetitions = rep.n_repetitions
          /\ rep'.caching = rep.caching
          /\ rep'._decompose = rep._decompose
          /\ (~rep.caching => (rep._cached = Nothing /\ rep'._cached = Nothing))]_vars

C22_Witness ==
    /\ rep # NoRepeat /\ ~rep.caching
    /\ rep._cached = Nothing
    /\ robs.done >= 2
    /\ Len(robs.hist) >= 2

\* C26: the cache slot of a Repeat is empty or holds the whole expansion some
\* evaluation of the strategy produced, whatever was abandoned half-way and
\* whichever evaluation raised.
C26_CacheSlotCompleteOrEmpty ==
    (rep # NoRepeat /\ rep._cached # Nothing) =>
        /\ rep.caching
        /\ \E k \in 0..(robs.evals - 1) :
              /\ ~Decompose(rep, k).raised
              /\ rep._cached[1] = Decompose(rep, k).seq

C26_Witness ==
    /\ rep # NoRepeat /\ rep.caching /\ rep.subbloq = "circuit"
    /\ rep._cached # Nothing
    /\ robs.starts = 2
    /\ Len(its) = 1
    /\ its[1].state = "running" /\ its[1].active
    /\ its[1].pos = 1
    /\ robs.hist = << >>

\* C19: decompose_from_registers of a Repeat with n_repetitions = n >= 0 yields
\* n consecutive copies of what the subbloq's decompose_from_registers
\* produces, with caching and without.
C19_RegistersDecompositionIsNCopies ==
    (rep # NoRepeat /\ robs.dfr # << >> /\ ~robs.dfr[1].raised
        /\ rep.n_repetitions >= 0) =>
        robs.dfr[1].out = Copies(InnerRegisterOps(rep.subbloq), rep.n_repetitions)

(***************************************************************************)
(* The sequence comparators (tests/test_helpers.py, tests/test_repeat.py)  *)
(***************************************************************************)
\* The operations the compared sequences are made of: Hadamards on qubit 0
\* and on qubit 1, a CZ on both, and an operation on no qubit (a global phase).
CmpOps == {Op("H", {0}), Op("H", {1}), Op("CZ", {0, 1}), Op("GlobalPhase", {})}

RECURSIVE SeqsUpTo(_)
\* the sequences of at most n operations
SeqsUpTo(n) ==
    IF n = 0 THEN {<< >>}
    ELSE LET shorter == SeqsUpTo(n - 1)
         IN  shorter \cup {Append(q, o) : q \in {x \in shorter : Len(x) = n - 1},
                                            o \in CmpOps}

\* `any(i in cmp.qubits for i in qubits)`
OverlapAnyMut(c, qubits) == TRUE
OverlapMut(c, qubits) == qubits \subseteq c.qubits
Overlap(c, qubits) == \E i \in qubits : i \in c.qubits

\* `cmp != bloq_gate`
OpsDifferMut(c, bloq_gate) == FALSE
OpsDiffer(c, bloq_gate) == c # bloq_gate

\* TestHelpers.non_empty(iterable): next() succeeds
non_emptyMut(iterable) == TRUE
non_empty(iterable) == Len(iterable) > 0

\* min(len(a), len(b)): where zip stops
ZipLen(a, b) == IF Len(a) < Len(b) THEN Len(a) ELSE Len(b)

\* all(map(lambda x: x[0] == x[1], zip(a, b)))
AllZipEqual(a, b) == \A k \in 1..ZipLen(a, b) : a[k] = b[k]

PyBool(b) == IF b THEN "True" ELSE "False"

\* TestHelpers.generator_equality(circuit, bloq)
generator_equality(c, b) ==
    IF ~non_empty(b) THEN "AssertionError" ELSE PyBool(AllZipEqual(b, c))

\* TestHelpers.circuit_equality(circuit, bloq): the elements of circuit against
\* those of circuit_decompose_multi(bloq, decomp), here the candidate sequence
circuit_equality(c, b) ==
    IF ~non_empty(b) THEN "AssertionError" ELSE PyBool(AllZipEqual(c, b))

\* the least index of seq, after index from, whose entry overlaps qubits; 0 if none
FirstOverlap(seq, qubits, from) ==
    LET hits == {k \in (from + 1)..Len(seq) : Overlap(seq[k], qubits)}
    IN  IF hits = {} THEN 0 ELSE CHOOSE k \in hits : \A j \in hits : k <= j

\* backlog.remove(found): the first entry equal to found is removed
ListRemoveMut(seq, found) == seq
ListRemove(seq, found) ==
    LET k == CHOOSE k \in 1..Len(seq) :
                 seq[k] = found /\ \A j \in 1..(k - 1) : seq[j] # found
    IN  [j \in 1..(Len(seq) - 1) |-> IF j < k THEN seq[j] ELSE seq[j + 1]]

\* the entries lo..hi of seq
Slice(seq, lo, hi) == [j \in 1..(hi - lo + 1) |-> seq[lo + j - 1]]

\* `if not found: return False`, after gen has been traversed to its end
NotFoundMut(st) == st
NotFound(st) == [st EXCEPT !.result = "False"]

\* The body of `for bloq_gate in generator_decompose(bloq)` for one bloq_gate:
\* the scan of the backlog, then the traversal of gen (the rest of the reference
\* c after its first st.gen entries).  st.result becomes "False" on `return False`.
LoopBody(st, c, bloq_gate) ==
    LET qubits == bloq_gate.qubits
        inBacklog == FirstOverlap(st.backlog, qubits, 0)
        inGen == FirstOverlap(c, qubits, st.gen)
        done == [st EXCEPT !.pos = @ + 1]
    IN  IF inBacklog # 0
        THEN IF OpsDiffer(st.backlog[inBacklog], bloq_gate)
             THEN [done EXCEPT !.result = "False"]
             ELSE [done EXCEPT !.backlog = ListRemove(@, st.backlog[inBacklog]),
                               !.matched = @ + 1]
        ELSE IF inGen = 0
             THEN NotFound([done EXCEPT !.gen = Len(c),
                                        !.backlog = @ \o Slice(c, st.gen + 1, Len(c))])
             ELSE IF OpsDiffer(c[inGen], bloq_gate)
                  THEN [done EXCEPT !.result = "False", !.gen = inGen,
                                    !.backlog = @ \o Slice(c, st.gen + 1, inGen - 1)]
                  ELSE [done EXCEPT !.gen = inGen, !.matched = @ + 1,
                                    !.backlog = @ \o Slice(c, st.gen + 1, inGen - 1)]

\* `backlog = []`, `gen = generator_decompose(circuit)`
LoopStart == [result |-> "running", backlog |-> << >>, gen |-> 0, pos |-> 0,
              matched |-> 0]

\* One turn of the loop over bloq: the body for the next bloq_gate, or the
\* `return True` after the last one.
LoopTurn(st, c, b) ==
    IF st.pos = Len(b) THEN [st EXCEPT !.result = "True"]
    ELSE LoopBody(st, c, b[st.pos + 1])

RECURSIVE LoopRun(_, _, _)
LoopRun(st, c, b) ==
    IF st.result # "running" THEN st ELSE LoopRun(LoopTurn(st, c, b), c, b)

\* The comparison of TestRepeatBloq.generator_commutative_equality, which is
\* lines 104-148 of TestHelpers.generator_commutative_equality: TRUE or FALSE.
commutative_equal(c, b) == LoopRun(LoopStart, c, b).result = "True"

\* TestHelpers.generator_commutative_equality(circuit, bloq)
generator_commutative_equality(c, b) ==
    IF ~non_empty(b) THEN "AssertionError" ELSE PyBool(commutative_equal(c, b))

InitCmp ==
    /\ CachedIdle
    /\ DeferredIdle
    /\ RepeatIdle
    /\ circuit \in SeqsUpTo(MaxLen)
    /\ bloq = circuit
    /\ viaDisjoint = TRUE
    /\ sres = "unset"
    /\ cres = "unset"
    /\ cmp = IdleCmp

\* how often the operation o occurs in seq
Count(seq, o) == Cardinality({k \in 1..Len(seq) : seq[k] = o})

\* b holds the operations of c, each as often as c does
IsPermutation(c, b) ==
    /\ Len(b) = Len(c)
    /\ \A k \in 1..Len(c) : Count(b, c[k]) = Count(c, c[k])

SwapAt(seq, i) ==
    [j \in 1..Len(seq) |-> IF j = i THEN seq[i + 1]
                           ELSE IF j = i + 1 THEN seq[i] ELSE seq[j]]

\* The candidate is built from the reference: two neighbours on disjoint
\* qubits change places.
SwapDisjoint(i) ==
    /\ cmp = IdleCmp
    /\ IsPermutation(circuit, bloq)
    /\ i \in 1..(Len(bloq) - 1)
    /\ bloq[i] # bloq[i + 1]
    /\ bloq[i].qubits \cap bloq[i + 1].qubits = {}
    /\ bloq' = SwapAt(bloq, i)
    /\ sres' = "unset"
    /\ cres' = "unset"
    /\ UNCHANGED <<circuit, viaDisjoint, cmp, cachedVars, repeatVars, deferredVars, flat>>

\* Two neighbours sharing a qubit change places.
SwapOverlapping(i) ==
    /\ cmp = IdleCmp
    /\ IsPermutation(circuit, bloq)
    /\ i \in 1..(Len(bloq) - 1)
    /\ bloq[i] # bloq[i + 1]
    /\ bloq[i].qubits \cap bloq[i + 1].qubits # {}
    /\ bloq' = SwapAt(bloq, i)
    /\ viaDisjoint' = FALSE
    /\ sres' = "unset"
    /\ cres' = "unset"
    /\ UNCHANGED <<circuit, cmp, cachedVars, repeatVars, deferredVars, flat>>

\* The candidate loses its last operation.
DropLast ==
    /\ cmp = IdleCmp
    /\ Len(bloq) > 0
    /\ Len(bloq) >= Len(circuit)
    /\ bloq' = SubSeq(bloq, 1, Len(bloq) - 1)
    /\ viaDisjoint' = FALSE
    /\ sres' = "unset"
    /\ cres' = "unset"
    /\ UNCHANGED <<circuit, cmp, cachedVars, repeatVars, deferredVars, flat>>

\* The candidate gets one more operation.
AppendOp(o) ==
    /\ cmp = IdleCmp
    /\ Len(bloq) <= Len(circuit)
    /\ bloq' = Append(bloq, o)
    /\ viaDisjoint' = FALSE
    /\ sres' = "unset"
    /\ cres' = "unset"
    /\ UNCHANGED <<circuit, cmp, cachedVars, repeatVars, deferredVars, flat>>

\* generator_equality(circuit, bloq) is called
CallStrict ==
    /\ cmp = IdleCmp
    /\ sres = "unset"
    /\ sres' = generator_equality(circuit, bloq)
    /\ UNCHANGED <<circuit, bloq, viaDisjoint, cres, cmp, cachedVars, repeatVars, deferredVars, flat>>

\* circuit_equality(circuit, bloq) is called
CallCircuit ==
    /\ cmp = IdleCmp
    /\ cres = "unset"
    /\ cres' = circuit_equality(circuit, bloq)
    /\ UNCHANGED <<circuit, bloq, viaDisjoint, sres, cmp, cachedVars, repeatVars, deferredVars, flat>>

\* generator_commutative_equality(circuit, bloq) is called: the assertion of
\* line 102 and lines 104-106
CallCommutative ==
    /\ cmp = IdleCmp
    /\ cmp' = IF non_empty(bloq) THEN LoopStart
              ELSE [LoopStart EXCEPT !.result = "AssertionError"]
    /\ UNCHANGED <<circuit, bloq, viaDisjoint, sres, cres, cachedVars, repeatVars, deferredVars, flat>>

\* one turn of its loop
CommutativeTurn ==
    /\ cmp.result = "running"
    /\ cmp' = LoopTurn(cmp, circuit, bloq)
    /\ UNCHANGED <<circuit, bloq, viaDisjoint, sres, cres, cachedVars, repeatVars, deferredVars, flat>>

NextCmp ==
    \/ \E i \in 1..MaxLen : SwapDisjoint(i)
    \/ \E i \in 1..MaxLen : SwapOverlapping(i)
    \/ DropLast
    \/ \E o \in CmpOps : AppendOp(o)
    \/ CallStrict
    \/ CallCircuit
    \/ CallCommutative
    \/ CommutativeTurn

SpecCmp == InitCmp /\ [][NextCmp]_vars

(***************************************************************************)
(* The comparison of test_mixed_param: the reference is the circuit        *)
(* H(q1), CZ(q1,q0), H(q2), CZ(q2,q0) built at test_map.py:117-120; the    *)
(* candidates are its rearrangements.                                      *)
(***************************************************************************)
MixedParamCircuit ==
    <<Op("H", {1}), Op("CZ", {1, 0}), Op("H", {2}), Op("CZ", {2, 0})>>

InitMixed ==
    /\ CachedIdle
    /\ DeferredIdle
    /\ RepeatIdle
    /\ circuit = MixedParamCircuit
    /\ bloq = circuit
    /\ viaDisjoint = TRUE
    /\ sres = "unset"
    /\ cres = "unset"
    /\ cmp = IdleCmp

NextMixed ==
    \/ \E i \in 1..Len(MixedParamCircuit) : SwapDisjoint(i)
    \/ \E i \in 1..Len(MixedParamCircuit) : SwapOverlapping(i)
    \/ CallStrict
    \/ CallCommutative
    \/ CommutativeTurn

SpecMixed == InitMixed /\ [][NextMixed]_vars

(***************************************************************************)
(* Claims about the comparators                                            *)
(***************************************************************************)
Returned(result) == result \in {"True", "False"}

\* The ways to read b as a rearrangement of c: s[i] is the place in b of the
\* i-th operation of c.
Matchings(c, b) ==
    {s \in [1..Len(c) -> 1..Len(b)] :
        /\ \A i, j \in 1..Len(c) : s[i] = s[j] => i = j
        /\ \A i \in 1..Len(c) : b[s[i]] = c[i]}

\* However b is read as a rearrangement of c, two operations of c that share
\* a qubit stand in b in the other order.
ReordersOverlapping(c, b) ==
    \A s \in Matchings(c, b) :
        \E i, j \in 1..Len(c) :
            /\ i < j
            /\ c[i].qubits \cap c[j].qubits # {}
            /\ s[i] > s[j]

\* C3: a candidate got from the reference by swapping neighbours on disjoint
\* qubits (and differing from it) compares commutative-equal to it.
C3_DisjointSwapsCompareEqual ==
    (Returned(cmp.result) /\ viaDisjoint /\ bloq # circuit) => cmp.result = "True"

\* C4: a permutation of the reference in which two operations sharing a qubit
\* stand in the other order compares unequal to it.
C4_ReorderedOverlapCompareUnequal ==
    (Returned(cmp.result) /\ IsPermutation(circuit, bloq)
        /\ ReordersOverlapping(circuit, bloq)) => cmp.result = "False"

C4_Witness ==
    /\ cmp.result = "False"
    /\ IsPermutation(circuit, bloq)
    /\ ReordersOverlapping(circuit, bloq)
    /\ \A k \in 1..Len(circuit) : circuit[k].qubits # {}
    /\ cmp.pos = 1

\* C9: every finite sequence of operations compares commutative-equal to itself.
C9_CommutativeEqualReflexive ==
    (Returned(cmp.result) /\ bloq = circuit) => cmp.result = "True"

\* C10: the strict comparison returns true exactly when the two sequences have
\* the same length and are pointwise equal (so never for a strict prefix).
C10_StrictIffPointwiseEqual ==
    Returned(sres) => (sres = "True" <=> bloq = circuit)

\* the place of the operation o in seq
IndexOf(seq, o) == CHOOSE k \in 1..Len(seq) : seq[k] = o

Precedes(seq, a, b) == IndexOf(seq, a) < IndexOf(seq, b)

\* each H(qi) stands before its own CZ(qi, q0)
KeepsPairs(b) ==
    /\ Precedes(b, Op("H", {1}), Op("CZ", {1, 0}))
    /\ Precedes(b, Op("H", {2}), Op("CZ", {2, 0}))

\* C13 as stated: against H(q1), CZ(q1,q0), H(q2), CZ(q2,q0) every candidate
\* that keeps each H(qi) before its own CZ(qi,q0) compares equal, and every
\* candidate in which a CZ(qi,q0) precedes its own H(qi) compares unequal.
C13_PairInterleavingsCompareEqual ==
    (Returned(cmp.result) /\ circuit = MixedParamCircuit) =>
        (cmp.result = "True" <=> KeepsPairs(bloq))

\* C13 as amended: the candidate compares equal exactly when it keeps each
\* H(qi) before its own CZ(qi,q0) and also keeps CZ(q1,q0) before CZ(q2,q0),
\* the two operations that share q0.
C13_InterleavingsKeepingCZOrder ==
    (Returned(cmp.result) /\ circuit = MixedParamCircuit) =>
        (cmp.result = "True" <=>
            /\ KeepsPairs(bloq)
            /\ Precedes(bloq, Op("CZ", {1, 0}), Op("CZ", {2, 0})))

C13_Witness ==
    /\ circuit = MixedParamCircuit
    /\ bloq = <<Op("H", {2}), Op("H", {1}), Op("CZ", {1, 0}), Op("CZ", {2, 0})>>
    /\ cmp.result = "True"

\* The reference operations left unmatched by the comparison: those still in
\* the backlog and those never pulled from gen.
Unmatched ==
    {cmp.backlog[k] : k \in 1..Len(cmp.backlog)}
        \cup {circuit[k] : k \in (cmp.gen + 1)..Len(circuit)}

\* C14: when the comparison returns True no unmatched reference operation
\* shares a qubit with a candidate operation consumed by the comparison.
C14_NoConflictingLeftover ==
    cmp.result = "True" =>
        \A u \in Unmatched : \A k \in 1..cmp.pos :
            u.qubits \cap bloq[k].qubits = {}

\* C17: a turn of the loop for a candidate operation that shares a qubit with
\* no backlog entry and with no entry left in gen ends the comparison with
\* False; the comparison of a non-empty candidate only ever returns True or
\* False, and False for a candidate longer than the reference.
C17_ExhaustedReferenceIsFalse ==
    [][(cmp.result = "running" /\ cmp' # cmp) =>
          /\ cmp'.result \in {"running", "True", "False"}
          /\ (Len(bloq) > Len(circuit) => cmp'.result # "True")
          /\ (cmp.pos < Len(bloq) =>
                LET qubits == bloq[cmp.pos + 1].qubits
                IN  ((\A k \in 1..Len(cmp.backlog) :
                          cmp.backlog[k].qubits \cap qubits = {})
                      /\ (\A k \in (cmp.gen + 1)..Len(circuit) :
                          circuit[k].qubits \cap qubits = {}))
                    => cmp'.result = "False")]_vars

C17_Witness ==
    /\ Len(bloq) > Len(circuit)
    /\ Len(circuit) > 0
    /\ cmp.result = "False"
    /\ cmp.pos = Len(bloq)
    /\ cmp.gen = Len(circuit)
    /\ cmp.matched = Len(circuit)
    /\ bloq[Len(bloq)].qubits # {}

Least(S) == CHOOSE k \in S : \A j \in S : k <= j

\* C23: a turn of the comparison for the candidate operation op ends it with
\* False exactly when the first backlog entry sharing a qubit with op differs
\* from op, or, no backlog entry sharing one, the first entry left in gen
\* sharing a qubit with op differs from op, or no entry of either shares a
\* qubit with op and gen is run to its end; entries on qubits disjoint from
\* those of op have no part in it, equal to op or not.
C23_FalseOnlyOnOverlapOrExhaustion ==
    [][(cmp.result = "running" /\ cmp' # cmp) =>
          /\ (cmp'.result = "False" => cmp.pos < Len(bloq))
          /\ (cmp.pos < Len(bloq) =>
                LET op == bloq[cmp.pos + 1]
                    inBacklog == {k \in 1..Len(cmp.backlog) :
                                     cmp.backlog[k].qubits \cap op.qubits # {}}
                    inGen == {k \in (cmp.gen + 1)..Len(circuit) :
                                 circuit[k].qubits \cap op.qubits # {}}
                IN  IF inBacklog # {}
                    THEN cmp'.result = "False" <=>
                             cmp.backlog[Least(inBacklog)] # op
                    ELSE IF inGen # {}
                    THEN cmp'.result = "False" <=> circuit[Least(inGen)] # op
                    ELSE cmp'.result = "False" /\ cmp'.gen = Len(circuit))]_vars

C23_Witness ==
    /\ cmp.result = "False"
    /\ cmp.pos = 2
    /\ cmp.matched = 1
    /\ cmp.gen < Len(circuit)
    /\ Len(cmp.backlog) = 1
    /\ cmp.backlog[1] # bloq[1]
    /\ cmp.backlog[1].qubits \cap bloq[1].qubits = {}
    /\ cmp.backlog[1].qubits \cap bloq[2].qubits # {}

\* the entries of seq at the indices in S, in the order of seq
RECURSIVE Restrict(_, _)
Restrict(seq, S) ==
    IF seq = << >> THEN << >>
    ELSE LET front == Restrict(SubSeq(seq, 1, Len(seq) - 1), S)
         IN  IF Len(seq) \in S THEN Append(front, seq[Len(seq)]) ELSE front

\* st.backlog is, in the order of the reference, what is left of the entries
\* pulled from gen when those matched to the candidate operations are taken out
BacklogIsPulledUnmatched(st) ==
    /\ st.gen = st.matched + Len(st.backlog)
    /\ \E S \in SUBSET (1..st.gen) :
          /\ st.backlog = Restrict(SubSeq(circuit, 1, st.gen), S)
          /\ IsPermutation(Restrict(SubSeq(circuit, 1, st.gen), (1..st.gen) \ S),
                           SubSeq(bloq, 1, st.matched))

C25_StrictPrefixComparesEqualOneWay ==
    /\ (Returned(cmp.result) /\ bloq # << >> /\ Len(bloq) < Len(circuit)
            /\ bloq = SubSeq(circuit, 1, Len(bloq))) => cmp.result = "True"
    /\ (Returned(cmp.result) /\ circuit # << >> /\ Len(circuit) < Len(bloq)
            /\ circuit = SubSeq(bloq, 1, Len(circuit))) => cmp.result = "False"

====
